---- MODULE Spec2Model ----
(***************************************************************************)
(* A model of cub-to-obj.js: the command line entry point `main` and the   *)
(* conversion pipeline convertCub = chunkBuffer ; isolateColors ;          *)
(* generateOBJ ; generateMTL.                                              *)
(*                                                                         *)
(* Buffers are sequences of bytes.  A text output is a sequence of lines,  *)
(* each line the tuple of its space separated tokens; integer tokens of    *)
(* the OBJ output are kept as integers (their decimal rendering is         *)
(* injective), the tokens produced by toFixed are rendered as strings.     *)
(* A JavaScript object is a sequence of [key, value] entries in creation   *)
(* order; its enumeration order is computed by ObjectValues.               *)
(***************************************************************************)
EXTENDS Integers, Sequences, FiniteSets, TLC

VARIABLES
  pc,            \* position of main / convertCub
  file,          \* process.argv[2]
  outArg,        \* process.argv[3]
  fsFileOk,      \* file system: argv[2] exists and is a regular file
  fsDirOk,       \* file system: the output folder exists and is a directory
  fsCalls,       \* file system calls made so far
  stdout,        \* console.log lines
  stderr,        \* console.error lines
  exitCode,      \* code passed to process.exit (0 while none was passed)
  data,          \* the bytes read from the input file
  name,          \* base name of the input file
  width, depth, height,
  colors,        \* the chunks of the payload
  colorIndicies, \* isolateColors(...).colorIndicies
  uniqueColors,  \* isolateColors(...).uniqueColors
  obj,           \* lines of the OBJ string
  mtl,           \* lines of the MTL string
  written        \* names of the files written

vars == <<pc, file, outArg, fsFileOk, fsDirOk, fsCalls, stdout, stderr,
          exitCode, data, name, width, depth, height, colors, colorIndicies,
          uniqueColors, obj, mtl, written>>

-----------------------------------------------------------------------------
(* Bounds of the input space *)

MaxDim == 2
MaxCells == 4
MaxMissing == 1

-----------------------------------------------------------------------------
(* Program constants *)

version == "0.0.1"

precision == 6

chunkSize == 3

headerSize == 12

defaultCubeFaces ==
  << <<1, 2, 4, 3>>,
     <<3, 4, 8, 7>>,
     <<7, 8, 6, 5>>,
     <<5, 6, 2, 1>>,
     <<3, 7, 5, 1>>,
     <<8, 4, 2, 6>> >>

blackKey == "000000"

-----------------------------------------------------------------------------
(* JavaScript values and objects *)

Undefined == <<"undefined">>

Num(n) == <<"number", n>>

IsNum(v) == v[1] = "number"

JSToString(v) == IF IsNum(v) THEN ToString(v[2]) ELSE "undefined"

\* The property key a number or undefined is converted to: the decimal
\* string of a non-negative integer is an array index.
ValueKey(v) ==
  IF IsNum(v) /\ v[2] >= 0
    THEN [str |-> ToString(v[2]), isIndex |-> TRUE, num |-> v[2]]
    ELSE [str |-> JSToString(v), isIndex |-> FALSE, num |-> 0]

\* obj[key]: the value of the entry with that key, or undefined
HasKey(o, key) == \E i \in 1..Len(o) : o[i].key.str = key.str

GetKey(o, key) == o[CHOOSE i \in 1..Len(o) : o[i].key.str = key.str].value

\* obj[key] = value for a key that is not yet a property of obj
AddKey(o, key, value) == Append(o, [key |-> key, value |-> value])

\* obj[key] = value for a key that is a property of obj
SetKey(o, key, value) ==
  [i \in 1..Len(o) |-> IF o[i].key.str = key.str
                         THEN [key |-> key, value |-> value]
                         ELSE o[i]]

RECURSIVE IndexEntriesAscending(_, _)
IndexEntriesAscending(o, left) ==
  IF left = {} THEN <<>>
  ELSE LET m == CHOOSE i \in left : \A j \in left : o[i].key.num <= o[j].key.num
       IN  <<o[m]>> \o IndexEntriesAscending(o, left \ {m})

\* OrdinaryOwnPropertyKeys: the array index keys in ascending numeric order,
\* then the other string keys in creation order.
OwnEntries(o) ==
  IndexEntriesAscending(o, {i \in 1..Len(o) : o[i].key.isIndex})
    \o SelectSeq(o, LAMBDA e : ~e.key.isIndex)

\* Mutant: the values in creation order, as a Map would give them
ObjectValues_creationOrder(o) == [i \in 1..Len(o) |-> o[i].value]

ObjectValues(o) == LET es == OwnEntries(o) IN [i \in 1..Len(es) |-> es[i].value]

-----------------------------------------------------------------------------
(* Buffers *)

Min(a, b) == IF a < b THEN a ELSE b

\* buffer.slice(start, end): end is clamped to the length of the buffer
slice(buffer, start, end) == SubSeq(buffer, start + 1, Min(end, Len(buffer)))

readUInt32LE(buffer, offset) ==
  buffer[offset + 1] + 256 * buffer[offset + 2] + 65536 * buffer[offset + 3]
    + 16777216 * buffer[offset + 4]

HexDigits ==
  <<"0", "1", "2", "3", "4", "5", "6", "7", "8", "9", "a", "b", "c", "d", "e", "f">>

RECURSIVE toStringHex(_)
toStringHex(buffer) ==
  IF buffer = <<>> THEN ""
  ELSE HexDigits[(buffer[1] \div 16) + 1] \o HexDigits[(buffer[1] % 16) + 1]
         \o toStringHex(Tail(buffer))

RECURSIVE Nibbles(_)
Nibbles(buffer) ==
  IF buffer = <<>> THEN <<>>
  ELSE <<buffer[1] \div 16, buffer[1] % 16>> \o Nibbles(Tail(buffer))

RECURSIVE DecimalValue(_)
DecimalValue(digits) ==
  IF digits = <<>> THEN 0
  ELSE 10 * DecimalValue(SubSeq(digits, 1, Len(digits) - 1)) + digits[Len(digits)]

\* The property key color.toString('hex') is: a string of decimal digits
\* without a leading zero, below 2^32 - 1, is an array index.
HexKey(buffer) ==
  LET ns == Nibbles(buffer)
      canonical == /\ \A i \in 1..Len(ns) : ns[i] <= 9
                   /\ (Len(ns) = 1 \/ ns[1] # 0)
                   /\ Len(ns) <= 9
  IN  [str |-> toStringHex(buffer),
       isIndex |-> canonical,
       num |-> IF canonical THEN DecimalValue(ns) ELSE 0]

RECURSIVE chunkLoop(_, _, _, _)
chunkLoop(buffer, size, i, out) ==
  IF i < Len(buffer)
    THEN chunkLoop(buffer, size, i + size, Append(out, slice(buffer, i, i + size)))
    ELSE out

chunkBuffer(buffer, size) == chunkLoop(buffer, size, 0, <<>>)

-----------------------------------------------------------------------------
(* Materials *)

matName(index, nm) == nm \o "-mat-" \o JSToString(index)

RECURSIVE Pow10(_)
Pow10(n) == IF n = 0 THEN 1 ELSE 10 * Pow10(n - 1)

RECURSIVE PadLeft(_, _)
PadLeft(s, n) == IF Len(s) >= n THEN s ELSE PadLeft("0" \o s, n)

\* Mutant: the digits cut off instead of rounded
toFixed_truncated(num, den, digits) ==
  LET scaled == (num * Pow10(digits)) \div den
  IN  ToString(scaled \div Pow10(digits)) \o "."
        \o PadLeft(ToString(scaled % Pow10(digits)), digits)

\* (num / den).toFixed(digits) for a non-negative quotient: the nearest
\* decimal with that many digits after the point
toFixed(num, den, digits) ==
  LET scaled == (2 * num * Pow10(digits) + den) \div (2 * den)
  IN  ToString(scaled \div Pow10(digits)) \o "."
        \o PadLeft(ToString(scaled % Pow10(digits)), digits)

\* (x === 0 ? 0 : x / 255).toFixed(precision)
zeroToOneComponent(x) ==
  IF x = 0 THEN toFixed(0, 1, precision) ELSE toFixed(x, 255, precision)

zeroToOne(color) == [i \in 1..Len(color) |-> zeroToOneComponent(color[i])]

\* array.join('\n') of blocks that each end with a newline: a blank line
\* between two blocks
RECURSIVE JoinBlocks(_)
JoinBlocks(blocks) ==
  IF blocks = <<>> THEN <<>>
  ELSE IF Len(blocks) = 1 THEN blocks[1]
  ELSE blocks[1] \o << <<"">> >> \o JoinBlocks(Tail(blocks))

materialBlock(color, i, nm) ==
  << <<"newmtl", matName(Num(i), nm)>>, <<"Kd">> \o zeroToOne(color) >>

generateMTL(cols, nm) ==
  << <<"#", "CUB", "to", "OBJ", "v" \o version>> >>
    \o JoinBlocks([i \in 1..Len(cols) |-> materialBlock(cols[i], i - 1, nm)])

-----------------------------------------------------------------------------
(* Geometry *)

addX(point, x) == <<point[1] + x, point[2], point[3]>>

addY(point, y) == <<point[1], point[2] + y, point[3]>>

addZ(point, z) == <<point[1], point[2], point[3] + z>>

\* all 8 points that make up a cube
cubeVertices(point) ==
  << point,
     addX(point, 1),
     addY(point, 1),
     addY(addX(point, 1), 1),
     addZ(point, 1),
     addZ(addX(point, 1), 1),
     addZ(addY(point, 1), 1),
     addZ(addY(addX(point, 1), 1), 1) >>

offsetFaces(offset) ==
  [f \in 1..Len(defaultCubeFaces) |-> [k \in 1..4 |-> defaultCubeFaces[f][k] + offset]]

\* Mutant: the offset counts the faces of a cube instead of its vertices
pointToCube_faceCount(point, faceOffset) ==
  [vertices |-> cubeVertices(point),
   faces |-> offsetFaces(faceOffset * Len(defaultCubeFaces))]

pointToCube(point, faceOffset) ==
  LET vertices == cubeVertices(point)
      offset == faceOffset * Len(vertices)
  IN  [vertices |-> vertices, faces |-> offsetFaces(offset)]

xyzToIndex(x, y, z, w, d, h) == x + w * (y + d * z)

\* array[i] of a dense array: undefined past its end
ArrayGet(array, i) == IF i + 1 \in DOMAIN array THEN Num(array[i + 1]) ELSE Undefined

\* The points in the order the three nested loops visit them: x outermost,
\* then y, z innermost.
scanPoints(w, d, h) ==
  [k \in 1..(w * d * h) |->
     <<(k - 1) \div (d * h), ((k - 1) \div h) % d, (k - 1) % h>>]

\* The group of the color is created when it is missing, and the point is
\* pushed on it
pushPoint(byColor, color, point) ==
  LET key == ValueKey(color)
      created == IF HasKey(byColor, key) THEN byColor
                 ELSE AddKey(byColor, key, [colorIndex |-> color, points |-> <<>>])
      group == GetKey(created, key)
  IN  SetKey(created, key,
             [colorIndex |-> group.colorIndex, points |-> Append(group.points, point)])

\* Mutant: a cell whose neighbour at x - 1 is solid is culled
groupPoint_culled(byColor, point, indicies, w, d, h) ==
  LET color == ArrayGet(indicies, xyzToIndex(point[1], point[2], point[3], w, d, h))
      hidden == /\ point[1] > 0
                /\ ArrayGet(indicies, xyzToIndex(point[1] - 1, point[2], point[3], w, d, h))
                     # Num(-1)
  IN  IF color = Num(-1) \/ hidden THEN byColor ELSE pushPoint(byColor, color, point)

\* The loop body of generateOBJ for one point
groupPoint(byColor, point, indicies, w, d, h) ==
  LET color == ArrayGet(indicies, xyzToIndex(point[1], point[2], point[3], w, d, h))
  IN  IF color = Num(-1) THEN byColor ELSE pushPoint(byColor, color, point)

RECURSIVE groupLoop(_, _, _, _, _, _)
groupLoop(points, byColor, indicies, w, d, h) ==
  IF points = <<>> THEN byColor
  ELSE groupLoop(Tail(points), groupPoint(byColor, points[1], indicies, w, d, h),
                 indicies, w, d, h)

RECURSIVE Flatten(_)
Flatten(seqs) == IF seqs = <<>> THEN <<>> ELSE seqs[1] \o Flatten(Tail(seqs))

\* Mutant: cubeIndex is not incremented from cube to cube
groupCubes_noIncrement(points, cubeIndex) ==
  [i \in 1..Len(points) |-> pointToCube(points[i], cubeIndex)]

\* The cubes of one group: points.map((point, i) => pointToCube(point, cubeIndex++))
groupCubes(points, cubeIndex) ==
  [i \in 1..Len(points) |-> pointToCube(points[i], cubeIndex + i - 1)]

\* The text of one object, as lines
objectBlock(group, cubeIndex, nm) ==
  LET cubes == groupCubes(group.points, cubeIndex)
      allVertices == Flatten([i \in 1..Len(cubes) |-> cubes[i].vertices])
      allFaces == Flatten([i \in 1..Len(cubes) |-> cubes[i].faces])
  IN  << <<"o", nm \o "-obj-" \o JSToString(group.colorIndex)>> >>
        \o [i \in 1..Len(allVertices) |-> <<"v">> \o allVertices[i]]
        \o << <<"usemtl", matName(group.colorIndex, nm)>>, <<"s", "off">> >>
        \o [i \in 1..Len(allFaces) |-> <<"f">> \o allFaces[i]]

\* Mutant: cubeIndex starts again at 0 in every group
RECURSIVE objectsLoop_reset(_, _, _)
objectsLoop_reset(groups, cubeIndex, nm) ==
  IF groups = <<>> THEN <<>>
  ELSE <<objectBlock(groups[1], 0, nm)>> \o objectsLoop_reset(Tail(groups), 0, nm)

\* Object.values(byColor).map(...): cubeIndex runs on from group to group
RECURSIVE objectsLoop(_, _, _)
objectsLoop(groups, cubeIndex, nm) ==
  IF groups = <<>> THEN <<>>
  ELSE <<objectBlock(groups[1], cubeIndex, nm)>>
         \o objectsLoop(Tail(groups), cubeIndex + Len(groups[1].points), nm)

generateOBJ(w, d, h, indicies, nm) ==
  LET byColor == groupLoop(scanPoints(w, d, h), <<>>, indicies, w, d, h)
      objects == objectsLoop(ObjectValues(byColor), 0, nm)
  IN  << <<"#", "CUB", "to", "OBJ", "v" \o version>>, <<"mtllib", nm \o ".mtl">> >>
        \o JoinBlocks(objects)

-----------------------------------------------------------------------------
(* Colors *)

\* A color other than black: it is registered when new, and the cell gets
\* its index; st is the state the callback closes over
registerColor(st, color, key) ==
  IF ~HasKey(st.uniqueColors, key)
    THEN [uniqueColors |-> AddKey(st.uniqueColors, key,
                                  [color |-> color, index |-> st.index]),
          colorIndicies |-> Append(st.colorIndicies, st.index),
          index |-> st.index + 1]
    ELSE [st EXCEPT !.colorIndicies = Append(@, GetKey(st.uniqueColors, key).index)]

\* Mutant: black is registered like any other color
isolateColor_blackKept(st, color) == registerColor(st, color, HexKey(color))

\* The callback of inputColors.forEach for one color
isolateColor(st, color) ==
  LET key == HexKey(color)
  IN  IF key.str = blackKey
        THEN [st EXCEPT !.colorIndicies = Append(@, -1)]
        ELSE registerColor(st, color, key)

RECURSIVE isolateLoop(_, _)
isolateLoop(inputColors, st) ==
  IF inputColors = <<>> THEN st
  ELSE isolateLoop(Tail(inputColors), isolateColor(st, inputColors[1]))

isolateColors(inputColors) ==
  LET st == isolateLoop(inputColors,
                        [uniqueColors |-> <<>>, colorIndicies |-> <<>>, index |-> 0])
      values == ObjectValues(st.uniqueColors)
  IN  [uniqueColors |-> [i \in 1..Len(values) |-> values[i].color],
       colorIndicies |-> st.colorIndicies]

-----------------------------------------------------------------------------
(* Inputs: the command line, the file system and the content of the file *)

\* process.argv[2]; "" stands for an absent argument (both are falsy)
Args == {"", "-h", "--help", "model.cub"}

\* process.argv[3]
OutArgs == {"", "out"}

\* What a path is on disk
Kinds == {"missing", "file", "dir"}

Palette == { <<0, 0, 0>>, <<255, 0, 0>>, <<16, 0, 128>> }

TailBytes == {0, 16}

U32LE(n) ==
  <<n % 256, (n \div 256) % 256, (n \div 65536) % 256, (n \div 16777216) % 256>>

Header(w, d, h) == U32LE(w) \o U32LE(d) \o U32LE(h)

Shapes ==
  {s \in (0..MaxDim) \X (0..MaxDim) \X (0..MaxDim) : s[1] * s[2] * s[3] <= MaxCells}

\* The payloads for a grid of n cells: up to MaxMissing cells short, and up
\* to chunkSize - 1 bytes of a further, partial group
Payloads(n) ==
  UNION { { Flatten(cells) \o tail :
              cells \in [1..m -> Palette],
              tail \in UNION { [1..t -> TailBytes] : t \in 0..(chunkSize - 1) } } :
          m \in {k \in (n - MaxMissing)..n : k >= 0} }

\* The files shorter than the header
ShortInputs == { SubSeq(Header(1, 1, 1), 1, k) : k \in 0..(headerSize - 1) }

Inputs ==
  ShortInputs \cup
  UNION { { Header(s[1], s[2], s[3]) \o payload :
              payload \in Payloads(s[1] * s[2] * s[3]) } : s \in Shapes }

-----------------------------------------------------------------------------
(* Paths *)

\* path.extname and path.basename on the arguments of Args
extname(p) == IF p = "model.cub" THEN ".cub" ELSE ""

basename(p, ext) == IF p = "model.cub" /\ ext = ".cub" THEN "model" ELSE p

dirname(p) == "."

join(dir, leaf) == IF dir = "." THEN leaf ELSE dir \o "/" \o leaf

resolve(p) == IF p = "." THEN "/cwd" ELSE "/cwd/" \o p

helpLines ==
  << "Usage: node cub-to-obj.js <input-file> <output-folder?>",
     "",
     "  <input-file> the .cub file to process",
     "  <output-folder?> the optional output folder where to write the .obj and .mtl files",
     "  if not given, the files will be written to the directory of the .cub file" >>

\* fs.existsSync(p) || fs.statSync(p): statSync is called only when p exists
statCalls(p, kind) ==
  IF kind = "missing" THEN << <<"existsSync", p>> >>
  ELSE << <<"existsSync", p>>, <<"statSync", p>> >>

outFolder == IF outArg # "" THEN outArg ELSE dirname(file)

-----------------------------------------------------------------------------
(* The state machine *)

Init ==
  /\ pc = "main"
  /\ file \in Args
  /\ outArg \in OutArgs
  /\ fsFileOk \in Kinds
  /\ fsDirOk \in Kinds
  /\ fsCalls = <<>>
  /\ stdout = <<>>
  /\ stderr = <<>>
  /\ exitCode = 0
  /\ data = <<>>
  /\ name = ""
  /\ width = 0
  /\ depth = 0
  /\ height = 0
  /\ colors = <<>>
  /\ colorIndicies = <<>>
  /\ uniqueColors = <<>>
  /\ obj = <<>>
  /\ mtl = <<>>
  /\ written = <<>>

\* main, lines 301-306
MainHelp ==
  /\ pc = "main"
  /\ stdout' = IF file = "-h" \/ file = "--help" THEN stdout \o helpLines ELSE stdout
  /\ pc' = "checkArg"
  /\ UNCHANGED <<file, outArg, fsFileOk, fsDirOk, fsCalls, stderr, exitCode, data,
                 name, width, depth, height, colors, colorIndicies, uniqueColors,
                 obj, mtl, written>>

\* main, lines 308-312
MainNoFile ==
  /\ pc = "checkArg"
  /\ IF file = ""
       THEN /\ stderr' = Append(stderr, "No file provided")
            /\ stdout' = stdout \o helpLines
            /\ exitCode' = 1
            /\ pc' = "exited"
       ELSE /\ pc' = "checkFile"
            /\ UNCHANGED <<stderr, stdout, exitCode>>
  /\ UNCHANGED <<file, outArg, fsFileOk, fsDirOk, fsCalls, data, name, width, depth,
                 height, colors, colorIndicies, uniqueColors, obj, mtl, written>>

\* main, lines 314-317
MainCheckFile ==
  /\ pc = "checkFile"
  /\ fsCalls' = fsCalls \o statCalls(file, fsFileOk)
  /\ IF fsFileOk # "file"
       THEN /\ stderr' = Append(stderr, "The povided file is invalid")
            /\ exitCode' = 1
            /\ pc' = "exited"
       ELSE /\ pc' = "checkOut"
            /\ UNCHANGED <<stderr, exitCode>>
  /\ UNCHANGED <<file, outArg, fsFileOk, fsDirOk, stdout, data, name, width, depth,
                 height, colors, colorIndicies, uniqueColors, obj, mtl, written>>

\* main, lines 322-329
MainCheckOutFolder ==
  /\ pc = "checkOut"
  /\ fsCalls' = fsCalls \o statCalls(outFolder, fsDirOk)
  /\ IF fsDirOk # "dir"
       THEN /\ stderr' = Append(stderr, "The povided output directory is invalid")
            /\ exitCode' = 1
            /\ pc' = "exited"
            /\ UNCHANGED stdout
       ELSE /\ stdout' = Append(stdout, "Output folder is " \o resolve(outFolder))
            /\ pc' = "read"
            /\ UNCHANGED <<stderr, exitCode>>
  /\ UNCHANGED <<file, outArg, fsFileOk, fsDirOk, data, name, width, depth, height,
                 colors, colorIndicies, uniqueColors, obj, mtl, written>>

\* main, lines 332-335
MainReadFile ==
  /\ pc = "read"
  /\ \E content \in Inputs : data' = content
  /\ fsCalls' = Append(fsCalls, <<"readFileSync", file>>)
  /\ name' = basename(file, extname(file))
  /\ pc' = "convert"
  /\ UNCHANGED <<file, outArg, fsFileOk, fsDirOk, stdout, stderr, exitCode, width,
                 depth, height, colors, colorIndicies, uniqueColors, obj, mtl, written>>

\* convertCub, lines 276-278 on a buffer shorter than the header:
\* readUInt32LE throws a RangeError that nothing catches
ConvertCubThrows ==
  /\ pc = "convert"
  /\ Len(data) < headerSize
  /\ stderr' = Append(stderr, "RangeError")
  /\ exitCode' = 1
  /\ pc' = "threw"
  /\ UNCHANGED <<file, outArg, fsFileOk, fsDirOk, fsCalls, stdout, data, name, width,
                 depth, height, colors, colorIndicies, uniqueColors, obj, mtl, written>>

\* convertCub, lines 276-281
ConvertCubDecode ==
  /\ pc = "convert"
  /\ Len(data) >= headerSize
  /\ width' = readUInt32LE(data, 0)
  /\ depth' = readUInt32LE(data, 4)
  /\ height' = readUInt32LE(data, 8)
  /\ colors' = chunkBuffer(slice(data, headerSize, Len(data)), chunkSize)
  /\ pc' = "isolate"
  /\ UNCHANGED <<file, outArg, fsFileOk, fsDirOk, fsCalls, stdout, stderr, exitCode,
                 data, name, colorIndicies, uniqueColors, obj, mtl, written>>

\* convertCub, line 283
ConvertCubIsolate ==
  /\ pc = "isolate"
  /\ LET r == isolateColors(colors)
     IN  /\ colorIndicies' = r.colorIndicies
         /\ uniqueColors' = r.uniqueColors
  /\ pc' = "obj"
  /\ UNCHANGED <<file, outArg, fsFileOk, fsDirOk, fsCalls, stdout, stderr, exitCode,
                 data, name, width, depth, height, colors, obj, mtl, written>>

\* convertCub, line 284
ConvertCubOBJ ==
  /\ pc = "obj"
  /\ obj' = generateOBJ(width, depth, height, colorIndicies, name)
  /\ pc' = "mtl"
  /\ UNCHANGED <<file, outArg, fsFileOk, fsDirOk, fsCalls, stdout, stderr, exitCode,
                 data, name, width, depth, height, colors, colorIndicies, uniqueColors,
                 mtl, written>>

\* convertCub, line 285
ConvertCubMTL ==
  /\ pc = "mtl"
  /\ mtl' = generateMTL(uniqueColors, name)
  /\ pc' = "write"
  /\ UNCHANGED <<file, outArg, fsFileOk, fsDirOk, fsCalls, stdout, stderr, exitCode,
                 data, name, width, depth, height, colors, colorIndicies, uniqueColors,
                 obj, written>>

\* main, lines 339-345
MainWrite ==
  /\ pc = "write"
  /\ LET outOBJ == join(outFolder, name \o ".obj")
         outMTL == join(outFolder, name \o ".mtl")
     IN  /\ written' = written \o << [path |-> outOBJ, content |-> obj],
                                     [path |-> outMTL, content |-> mtl] >>
         /\ fsCalls' = fsCalls \o << <<"writeFileSync", outOBJ>>,
                                     <<"writeFileSync", outMTL>> >>
  /\ stdout' = Append(stdout, "Done!")
  /\ pc' = "done"
  /\ UNCHANGED <<file, outArg, fsFileOk, fsDirOk, stderr, exitCode, data, name, width,
                 depth, height, colors, colorIndicies, uniqueColors, obj, mtl>>

Next ==
  \/ MainHelp
  \/ MainNoFile
  \/ MainCheckFile
  \/ MainCheckOutFolder
  \/ MainReadFile
  \/ ConvertCubThrows
  \/ ConvertCubDecode
  \/ ConvertCubIsolate
  \/ ConvertCubOBJ
  \/ ConvertCubMTL
  \/ MainWrite

Spec == Init /\ [][Next]_vars

-----------------------------------------------------------------------------
(* Reading the state and the outputs back *)

Decoded == pc \in {"isolate", "obj", "mtl", "write", "done"}

Isolated == pc \in {"obj", "mtl", "write", "done"}

ObjReady == pc \in {"mtl", "write", "done"}

MtlReady == pc \in {"write", "done"}

Transparent == <<0, 0, 0>>

Range(f) == {f[i] : i \in DOMAIN f}

\* The distinct colors other than (0,0,0), in first-appearance order
RECURSIVE FirstAppearance(_, _)
FirstAppearance(cells, seen) ==
  IF cells = <<>> THEN seen
  ELSE FirstAppearance(Tail(cells),
                       IF cells[1] = Transparent \/ cells[1] \in Range(seen)
                         THEN seen ELSE Append(seen, cells[1]))

\* The lines of a text cut at its blank lines
RECURSIVE SplitOnBlank(_, _, _)
SplitOnBlank(lines, cur, out) ==
  IF lines = <<>> THEN Append(out, cur)
  ELSE IF lines[1] = <<"">> THEN SplitOnBlank(Tail(lines), <<>>, Append(out, cur))
  ELSE SplitOnBlank(Tail(lines), Append(cur, lines[1]), out)

BlocksOf(lines) == IF lines = <<>> THEN <<>> ELSE SplitOnBlank(lines, <<>>, <<>>)

\* The object blocks of the OBJ output (after its two header lines) and the
\* material blocks of the MTL output (after its header line)
ObjBlocks == BlocksOf(SubSeq(obj, 3, Len(obj)))

MtlBlocks == BlocksOf(SubSeq(mtl, 2, Len(mtl)))

VertexLines(block) == SelectSeq(block, LAMBDA l : l[1] = "v")

FaceLines(block) == SelectSeq(block, LAMBDA l : l[1] = "f")

\* The number of vertex lines of the blocks before block b
RECURSIVE VerticesBefore(_, _)
VerticesBefore(blocks, b) ==
  IF b = 1 THEN 0
  ELSE VerticesBefore(blocks, b - 1) + Len(VertexLines(blocks[b - 1]))

SetMax(S) == CHOOSE m \in S : \A n \in S : n <= m

SetMin(S) == CHOOSE m \in S : \A n \in S : m <= n

\* The cubes of a block: its (k+1)-th cube is its (k+1)-th run of 8 vertex
\* lines, anchored at the first of them, with its (k+1)-th run of 6 face
\* lines; `first` is the number of vertex lines of the file before the cube
BlockCubes(blocks, b) ==
  LET vs == VertexLines(blocks[b])
      fs == FaceLines(blocks[b])
      before == VerticesBefore(blocks, b)
  IN  { LET faces == SubSeq(fs, 6 * k + 1, 6 * k + 6)
            used == {faces[f][j] : f \in 1..6, j \in 2..5}
        IN  [block |-> b,
             anchor |-> Tail(vs[8 * k + 1]),
             vertices |-> SubSeq(vs, 8 * k + 1, 8 * k + 8),
             faces |-> faces,
             used |-> used,
             lo |-> SetMin(used),
             hi |-> SetMax(used),
             first |-> before + 8 * k] :
        k \in 0..(((Len(vs) + 7) \div 8) - 1) }

\* The cubes of the OBJ output
Cubes == LET blocks == ObjBlocks IN UNION {BlockCubes(blocks, b) : b \in 1..Len(blocks)}

\* The grid and the documented layout of its cells in the payload
GridPoints == (0..(width - 1)) \X (0..(depth - 1)) \X (0..(height - 1))

FlatIndex(p) == p[1] + width * (p[2] + depth * p[3])

ScanPosition(p) == (p[1] * depth + p[2]) * height + p[3]

HasCell(p) == FlatIndex(p) < Len(colors)

CellOf(p) == colors[FlatIndex(p) + 1]

FullGroups == \A i \in 1..Len(colors) : Len(colors[i]) = chunkSize

HelpMode == file = "-h" \/ file = "--help"

-----------------------------------------------------------------------------
(* C1 *)

\* C1 (as claimed): for cells that are full 3-byte colors, uniqueColors lists
\* the distinct non-transparent colors in first-appearance order, colorIndicies
\* is as long as the input, uniqueColors[colorIndicies[i]] is the color of
\* every cell i other than (0,0,0), and colorIndicies[i] = -1 for a cell
\* (0,0,0).
C1_IndexPointsAtOwnColor ==
  (Isolated /\ FullGroups) =>
    /\ uniqueColors = FirstAppearance(colors, <<>>)
    /\ Len(colorIndicies) = Len(colors)
    /\ \A i \in 1..Len(colors) :
         IF colors[i] = Transparent
           THEN colorIndicies[i] = -1
           ELSE /\ colorIndicies[i] + 1 \in DOMAIN uniqueColors
                /\ uniqueColors[colorIndicies[i] + 1] = colors[i]

-----------------------------------------------------------------------------
(* C6 *)

\* C6 (as claimed): the cells handed to isolateColors are the full 3-byte
\* groups of the bytes after offset 12 and nothing else, so a trailing group
\* of 1 or 2 bytes yields no cell and no registry entry.
C6_PartialGroupDropped ==
  Decoded =>
    /\ Len(colors) = (Len(data) - headerSize) \div chunkSize
    /\ FullGroups
    /\ Isolated => \A i \in 1..Len(uniqueColors) : Len(uniqueColors[i]) = chunkSize

-----------------------------------------------------------------------------
(* C9 *)

\* C9 (as claimed): in help mode main prints the usage and does nothing
\* else: no file system call, no error message, no exit code 1, no input
\* read, no file written.
C9_HelpTakesNoFurtherAction ==
  (HelpMode /\ pc # "main") =>
    /\ stdout = helpLines
    /\ fsCalls = <<>>
    /\ stderr = <<>>
    /\ exitCode = 0
    /\ data = <<>>
    /\ written = <<>>

-----------------------------------------------------------------------------
(* C7 *)

\* byte / 255 to six decimals, for the bytes of Palette and TailBytes
SixDecimals(b) ==
  CASE b = 0 -> "0.000000"
    [] b = 16 -> "0.062745"
    [] b = 128 -> "0.501961"
    [] b = 255 -> "1.000000"

KdLine(color, zero) ==
  <<"Kd">> \o [k \in 1..Len(color) |-> IF color[k] = 0 THEN zero ELSE SixDecimals(color[k])]

SingleRedCell ==
  /\ width = 1 /\ depth = 1 /\ height = 1
  /\ colors = << <<255, 0, 0>> >>

\* One material block per registry color, whose color line renders a zero
\* byte as `zero` and any other byte as byte/255 to six decimals
MaterialsRenderedWith(zero) ==
  /\ Len(MtlBlocks) = Len(uniqueColors)
  /\ \A i \in 1..Len(uniqueColors) :
       MtlBlocks[i] = << <<"newmtl", name \o "-mat-" \o ToString(i - 1)>>,
                         KdLine(uniqueColors[i], zero) >>

\* C7 (as claimed): a zero byte is rendered as the token 0, any other byte as
\* byte/255 to six decimals; the 1x1x1 grid (255,0,0) gives the single color
\* line `Kd 1.000000 0 0`.  Stated for payloads of full 3-byte groups.
C7_ZeroRenderedAsBareZero ==
  (MtlReady /\ FullGroups) =>
    /\ MaterialsRenderedWith("0")
    /\ SingleRedCell => MtlBlocks[1][2] = <<"Kd", "1.000000", "0", "0">>

\* C7 (amended): every byte, zero included, is rendered as byte/255 to six
\* decimals, so a zero byte is the token 0.000000; the 1x1x1 grid (255,0,0)
\* gives exactly one material block, with the color line
\* `Kd 1.000000 0.000000 0.000000`.
C7_EveryByteRenderedToSixDecimals ==
  MtlReady =>
    /\ MaterialsRenderedWith("0.000000")
    /\ SingleRedCell =>
         /\ Len(MtlBlocks) = 1
         /\ MtlBlocks[1][2] = <<"Kd", "1.000000", "0.000000", "0.000000">>

C7_Witness == pc = "done" /\ SingleRedCell /\ Len(mtl) = 3

-----------------------------------------------------------------------------
(* C2 *)

CountMatches == Len(colors) = width * depth * height

\* The j-th corner of the unit cube anchored at p
Corner(p, j) ==
  <<p[1] + ((j - 1) % 2), p[2] + (((j - 1) \div 2) % 2), p[3] + ((j - 1) \div 4)>>

\* The 8 vertex lines of the unit cube anchored at p
CubeVertexLines(p) == [j \in 1..8 |-> <<"v">> \o Corner(p, j)]

CellsWithIndex(c) == {p \in GridPoints : colorIndicies[FlatIndex(p) + 1] = c}

\* C2: when the number of cells is width*depth*height, there is one object
\* block per distinct non-transparent color, and the block of color index c
\* holds exactly one cube (8 vertex lines at the cell's corners, 6 face
\* lines) for each cell of index c and nothing else, whatever the
\* neighbours of the cell.
C2_EveryCubeExportedOnce ==
  (ObjReady /\ CountMatches) =>
    LET blocks == ObjBlocks
        cubes == Cubes
    IN  /\ Len(blocks) = Cardinality(Range(colors) \ {Transparent})
        /\ \A c \in Range(colorIndicies) \ {-1} :
             LET named == {b \in 1..Len(blocks) :
                             blocks[b][1] = <<"o", name \o "-obj-" \o ToString(c)>>}
                 cells == CellsWithIndex(c)
             IN  /\ Cardinality(named) = 1
                 /\ \A b \in named :
                      /\ Len(VertexLines(blocks[b])) = 8 * Cardinality(cells)
                      /\ Len(FaceLines(blocks[b])) = 6 * Cardinality(cells)
                      /\ \A p \in cells :
                           Cardinality({cube \in cubes :
                                          /\ cube.block = b
                                          /\ cube.vertices = CubeVertexLines(p)}) = 1

C2_Witness ==
  /\ pc = "done" /\ CountMatches /\ FullGroups
  /\ width = 2 /\ depth = 2 /\ height = 1
  /\ Transparent \notin Range(colors)
  /\ Len(ObjBlocks) = 2

-----------------------------------------------------------------------------
(* C3 *)

AllVertexLines == SelectSeq(obj, LAMBDA l : l[1] = "v")

AllFaceLines == SelectSeq(obj, LAMBDA l : l[1] = "f")

TransparentAt(p) == HasCell(p) /\ CellOf(p) = Transparent

\* C3: (0,0,0) is never in the registry and gets no material block, and the
\* cells holding it add no vertex line and no face line: the output holds 8
\* vertex lines and 6 face lines for each other grid position only, and no
\* cube is anchored at a transparent cell.
C3_TransparentNeverExported ==
  /\ Isolated => Transparent \notin Range(uniqueColors)
  /\ MtlReady => Len(MtlBlocks) = Cardinality(Range(colors) \ {Transparent})
  /\ ObjReady =>
       LET solid == {p \in GridPoints : ~TransparentAt(p)}
           anchors == {cube.anchor : cube \in Cubes}
       IN  /\ Len(AllVertexLines) = 8 * Cardinality(solid)
           /\ Len(AllFaceLines) = 6 * Cardinality(solid)
           /\ \A p \in GridPoints : TransparentAt(p) => p \notin anchors

C3_Witness ==
  /\ pc = "done"
  /\ \E p, q \in GridPoints : TransparentAt(p) /\ HasCell(q) /\ CellOf(q) # Transparent
  /\ Len(AllVertexLines) = 16

-----------------------------------------------------------------------------
(* C4 *)

FaceIndicesWithin(block, lo, hi) ==
  LET fs == FaceLines(block)
  IN  \A i \in 1..Len(fs) : \A j \in 2..5 : fs[i][j] \in lo..hi

\* C4 (as claimed): every vertex index of every face line lies between 1
\* and the number of vertex lines of its own object block.  Stated for
\* payloads of exactly width*depth*height full 3-byte groups.
C4_FaceIndicesWithinBlockCount ==
  (ObjReady /\ CountMatches /\ FullGroups) =>
    LET blocks == ObjBlocks
    IN  \A b \in 1..Len(blocks) :
          FaceIndicesWithin(blocks[b], 1, Len(VertexLines(blocks[b])))

\* C4 (amended): numbering the vertex lines of the whole file from 1, every
\* vertex index of every face line lies within the positions of the vertex
\* lines of its own object block: above the number of vertex lines of the
\* earlier blocks, and at most that number plus the block's own.
C4_FaceIndicesWithinOwnVertices ==
  ObjReady =>
    LET blocks == ObjBlocks
    IN  \A b \in 1..Len(blocks) :
          LET before == VerticesBefore(blocks, b)
          IN  FaceIndicesWithin(blocks[b], before + 1,
                                before + Len(VertexLines(blocks[b])))

C4_Witness ==
  /\ pc = "done" /\ CountMatches /\ FullGroups
  /\ Len(ObjBlocks) >= 2
  /\ \E b \in 1..Len(ObjBlocks) : Len(VertexLines(ObjBlocks[b])) = 16

-----------------------------------------------------------------------------
(* C5 *)

\* The color index of the cell at p: a number, or absent past the payload
IndexAt(p) == colorIndicies[FlatIndex(p) + 1]

\* The cube of p is written before the cube of q: p has the lower color
\* index (the cells past the end of the payload form a last group), or they
\* share their group and the scan visits p first
WrittenBefore(p, q) ==
  \/ HasCell(p) /\ HasCell(q) /\ IndexAt(p) < IndexAt(q)
  \/ HasCell(p) /\ ~HasCell(q)
  \/ /\ ScanPosition(p) < ScanPosition(q)
     /\ \/ ~HasCell(p) /\ ~HasCell(q)
        \/ HasCell(p) /\ HasCell(q) /\ IndexAt(p) = IndexAt(q)

\* C5 (as claimed): for two exported cells p and q with p visited before q
\* by the scan (x outermost, z innermost), every face vertex index of q's
\* cube is above the highest face vertex index of p's cube, also across
\* color groups.  Stated for payloads of exactly width*depth*height full
\* 3-byte groups.
C5_CounterIncreasesInScanOrder ==
  (ObjReady /\ CountMatches /\ FullGroups) =>
    \A c1, c2 \in Cubes :
      ScanPosition(c1.anchor) < ScanPosition(c2.anchor) => c2.lo > c1.hi

\* C5 (amended): the cube counter is never reset and increases in the order
\* the cubes are written: for two exported cells p and q where p has the
\* lower color index, or the same color index and is visited before q by
\* the scan, every face vertex index of q's cube is above the highest face
\* vertex index of p's cube.
C5_CounterIncreasesInOutputOrder ==
  ObjReady =>
    \A c1, c2 \in Cubes :
      WrittenBefore(c1.anchor, c2.anchor) => c2.lo > c1.hi

C5_Witness ==
  /\ pc = "done" /\ CountMatches /\ FullGroups
  /\ \E c1, c2 \in Cubes :
       /\ c1.block < c2.block
       /\ ScanPosition(c2.anchor) < ScanPosition(c1.anchor)
       /\ WrittenBefore(c1.anchor, c2.anchor)

-----------------------------------------------------------------------------
(* C8 *)

\* For each block, the earliest scan position and the earliest payload
\* position of the cells it holds a cube for
FirstScanned ==
  LET cubes == Cubes
  IN  [b \in 1..Len(ObjBlocks) |->
         SetMin({ScanPosition(c.anchor) : c \in {d \in cubes : d.block = b}})]

FirstInPayload ==
  LET cubes == Cubes
  IN  [b \in 1..Len(ObjBlocks) |->
         SetMin({FlatIndex(c.anchor) : c \in {d \in cubes : d.block = b}})]

\* C8 (as claimed): the object blocks are in the order in which the scan of
\* generateOBJ first visits a cell of their group.  Stated for payloads of
\* exactly width*depth*height full 3-byte groups.
C8_BlocksInScanDiscoveryOrder ==
  (ObjReady /\ CountMatches /\ FullGroups) =>
    LET first == FirstScanned
    IN  \A b1, b2 \in DOMAIN first : b1 < b2 => first[b1] < first[b2]

\* C8 (amended): the object blocks are in ascending order of color index,
\* which is the order in which their colors first appear in the cell
\* sequence of the payload (x fastest, then y, then z), not the order of
\* the scan of generateOBJ; a group of cells past the end of the payload
\* comes last.
C8_BlocksInColorIndexOrder ==
  ObjReady =>
    LET first == FirstInPayload
    IN  \A b1, b2 \in DOMAIN first :
          b1 < b2 =>
            /\ first[b1] < first[b2]
            /\ first[b1] < Len(colors)
            /\ first[b2] < Len(colors)
                 => colorIndicies[first[b1] + 1] < colorIndicies[first[b2] + 1]

C8_Witness ==
  /\ pc = "done" /\ CountMatches /\ FullGroups
  /\ \E b1, b2 \in DOMAIN FirstScanned :
       /\ b1 < b2
       /\ FirstScanned[b2] < FirstScanned[b1]

-----------------------------------------------------------------------------
(* C10 *)

FixedFaces ==
  << <<1, 2, 4, 3>>, <<3, 4, 8, 7>>, <<7, 8, 6, 5>>,
     <<5, 6, 2, 1>>, <<3, 7, 5, 1>>, <<8, 4, 2, 6>> >>

\* C10: numbering the vertex lines of the whole file from 1, the (c+1)-th
\* cube of the file has its 8 vertex lines at positions 8c+1..8c+8, the
\* corners of one unit cube, and its six face lines, in the same block, are
\* the fixed table shifted by 8c; so no face refers to a vertex of another
\* cube and no two cubes share a vertex index.
C10_FacesReferToOwnVertices ==
  ObjReady =>
    /\ LET blocks == ObjBlocks
       IN  \A b \in 1..Len(blocks) :
             /\ Len(VertexLines(blocks[b])) % 8 = 0
             /\ Len(FaceLines(blocks[b])) = 6 * (Len(VertexLines(blocks[b])) \div 8)
    /\ LET cubes == Cubes
       IN  /\ \A c \in cubes :
                /\ c.vertices = CubeVertexLines(c.anchor)
                /\ c.faces = [f \in 1..6 |->
                                <<"f">> \o [j \in 1..4 |-> FixedFaces[f][j] + c.first]]
           /\ \A c1, c2 \in cubes : c1 # c2 => c1.used \cap c2.used = {}

C10_Witness ==
  /\ pc = "done"
  /\ Len(ObjBlocks) = 3
  /\ Cardinality(Cubes) = 4

====
